---- MODULE Spec2Model ----
(***************************************************************************)
(* Model of backend/app.py: the face verification pipeline                 *)
(* (FaceVerificationSystem), the /verify endpoint, and the /config         *)
(* endpoints that read and write the process-wide tolerance and            *)
(* confidence_threshold.                                                   *)
(*                                                                         *)
(* Real numbers are fixed-point, in tenths: 6 stands for 0.6, One for 1.0. *)
(* A payload is a sequence of characters; the characters of ImageChars     *)
(* each stand for the base64 text of one valid image, "x" and "h" for text *)
(* that is not an image, "," for the data-URL delimiter.                   *)
(* Strings built with f-strings are sequences of their parts.              *)
(* The timestamp of a successful outcome is not modelled.                  *)
(***************************************************************************)
EXTENDS Integers, Sequences, FiniteSets, TLC

\* ---------------------------------------------------------------- bounds
MaxLen == 3
MaxEmb == 12

\* ------------------------------------------------------- program constants
One == 10
DefaultTolerance == 6
DefaultConfidenceThreshold == 6

\* ------------------------------------------------------------- alphabet
ImageChars == {"a", "m", "n", "d", "e", "w"}
Chars == ImageChars \cup {",", "h", "x"}

NoImage == "none"
None == <<>>
Cause == "<cause>"

Range(s) == {s[i] : i \in 1..Len(s)}

Max(x, y) == IF x >= y THEN x ELSE y

\* ------------------------------------------------ external capabilities
\* face_recognition.face_locations: the regions found in an image, in the
\* order the detector returns them.
face_locations(image) ==
  CASE image = "a" -> <<"r1">>
    [] image = "m" -> <<"r1", "r2">>
    [] image = "n" -> <<>>
    [] image = "d" -> <<"r1">>
    [] image = "w" -> <<"r1">>
    [] OTHER -> <<>>

\* face_recognition.face_encodings: one embedding per region ("d": none
\* could be produced; "w": an embedding of the wrong dimensionality).
face_encodings(image) ==
  CASE image = "a" -> << <<0, 0>> >>
    [] image = "m" -> << <<3, 4>>, <<0, 0>> >>
    [] image = "n" -> <<>>
    [] image = "d" -> <<>>
    [] image = "w" -> << <<1, 2, 2>> >>
    [] OTHER -> <<>>

\* the detector raises on image "e"
detector_raises(image) == image = "e"

ISqrt(n) == CHOOSE r \in 0..n : r * r <= n /\ n < (r + 1) * (r + 1)

RECURSIVE SumSq(_, _)
SumSq(u, v) ==
  IF u = <<>> THEN 0
  ELSE (Head(u) - Head(v)) * (Head(u) - Head(v)) + SumSq(Tail(u), Tail(v))

\* face_recognition.face_distance: Euclidean distance of two embeddings
face_distance(encoding1, encoding2) == ISqrt(SumSq(encoding1, encoding2))

\* ------------------------------------------------------ base64_to_image
\* str.split(','): the segments between the delimiters, in order
RECURSIVE split(_)
split(s) ==
  IF "," \notin Range(s) THEN <<s>>
  ELSE LET i == CHOOSE k \in 1..Len(s) :
                  s[k] = "," /\ \A j \in 1..(k - 1) : s[j] # ","
       IN <<SubSeq(s, 1, i - 1)>> \o split(SubSeq(s, i + 1, Len(s)))

\* base64.b64decode + Image.open succeed exactly on the text of an image
IsImageData(data) == Len(data) = 1 /\ data[1] \in ImageChars

base64_to_image_last(base64_string) ==
  LET segs == split(base64_string)
      data == IF "," \in Range(base64_string) THEN segs[Len(segs)]
              ELSE base64_string
  IN IF IsImageData(data)
     THEN [raised |-> FALSE, image |-> data[1], data |-> data, exc |-> None]
     ELSE [raised |-> TRUE, image |-> NoImage, data |-> data,
           exc |-> <<"Invalid image format: ", Cause>>]

base64_to_image(base64_string) ==
  LET data == IF "," \in Range(base64_string) THEN split(base64_string)[2]
              ELSE base64_string
  IN IF IsImageData(data)
     THEN [raised |-> FALSE, image |-> data[1], data |-> data, exc |-> None]
     ELSE [raised |-> TRUE, image |-> NoImage, data |-> data,
           exc |-> <<"Invalid image format: ", Cause>>]

\* ----------------------------------------------- detect_and_encode_face
detect_and_encode_face_lastface(image_array) ==
  IF detector_raises(image_array)
  THEN [encoding |-> None, error |-> <<"Face detection error: ", Cause>>]
  ELSE IF face_locations(image_array) = <<>>
  THEN [encoding |-> None, error |-> <<"No face detected in the image">>]
  ELSE IF face_encodings(image_array) = <<>>
  THEN [encoding |-> None, error |-> <<"Could not generate face encoding">>]
  ELSE [encoding |-> face_encodings(image_array)[Len(face_encodings(image_array))],
        error |-> None]

detect_and_encode_face(image_array) ==
  IF detector_raises(image_array)
  THEN [encoding |-> None, error |-> <<"Face detection error: ", Cause>>]
  ELSE IF face_locations(image_array) = <<>>
  THEN [encoding |-> None, error |-> <<"No face detected in the image">>]
  ELSE IF face_encodings(image_array) = <<>>
  THEN [encoding |-> None, error |-> <<"Could not generate face encoding">>]
  ELSE [encoding |-> face_encodings(image_array)[1], error |-> None]

\* -------------------------------------------------------- compare_faces
\* self_tolerance is the value of self.tolerance read at line 80
NoComparison == [raised |-> FALSE, exc |-> None, match |-> FALSE,
                 confidence |-> 0, distance |-> 0]

compare_faces_le(encoding1, encoding2, self_tolerance) ==
  IF Len(encoding1) # Len(encoding2)
  THEN [raised |-> TRUE, exc |-> <<"Face comparison error: ", Cause>>,
        match |-> FALSE, confidence |-> 0, distance |-> 0]
  ELSE LET d == face_distance(encoding1, encoding2)
       IN [raised |-> FALSE, exc |-> None, match |-> d <= self_tolerance,
           confidence |-> Max(0, One - d), distance |-> d]

compare_faces(encoding1, encoding2, self_tolerance) ==
  IF Len(encoding1) # Len(encoding2)
  THEN [raised |-> TRUE, exc |-> <<"Face comparison error: ", Cause>>,
        match |-> FALSE, confidence |-> 0, distance |-> 0]
  ELSE LET d == face_distance(encoding1, encoding2)
       IN [raised |-> FALSE, exc |-> None, match |-> d < self_tolerance,
           confidence |-> Max(0, One - d), distance |-> d]

\* ------------------------------------------- outcomes of verify_identity
NoResult == [none |-> TRUE]

profile_error_outcome(profile_error) ==
  [success |-> FALSE, error |-> <<"Profile image: ">> \o profile_error,
   match |-> FALSE, confidence |-> 0]

id_error_outcome_copy(id_error) ==
  [success |-> FALSE, error |-> <<"Profile image: ">> \o id_error,
   match |-> FALSE, confidence |-> 0]

id_error_outcome(id_error) ==
  [success |-> FALSE, error |-> <<"ID image: ">> \o id_error,
   match |-> FALSE, confidence |-> 0]

\* self_tolerance is the value of self.tolerance read at line 127
success_outcome(comparison_result, self_tolerance) ==
  [success |-> TRUE, match |-> comparison_result.match,
   confidence |-> comparison_result.confidence,
   distance |-> comparison_result.distance,
   threshold_used |-> self_tolerance]

\* the except clause of verify_identity: str(e) is the exception's message
verify_except_reraise(exc) == [escaped |-> TRUE, result |-> NoResult]

verify_except(exc) ==
  [escaped |-> FALSE,
   result |-> [success |-> FALSE, error |-> exc, match |-> FALSE,
               confidence |-> 0]]

\* ------------------------------------------------------ /verify endpoint
\* lines 156-172: the request checks made before the pipeline runs
verify_request_error(data) ==
  IF ~data.body
  THEN [status |-> 400,
        body |-> [success |-> FALSE, error |-> <<"No JSON data provided">>]]
  ELSE IF data.profile_image = <<>> \/ data.id_image = <<>>
  THEN [status |-> 400,
        body |-> [success |-> FALSE,
                  error |-> <<"Both profile_image and id_image are required">>]]
  ELSE [status |-> 0, body |-> NoResult]

\* lines 178-179: the status code follows the outcome's success flag
endpoint_response(res) ==
  [status |-> IF res.success THEN 200 ELSE 400, body |-> res]

\* lines 181-189: an exception that reaches the endpoint
endpoint_except(exc) ==
  [status |-> 500,
   body |-> [success |-> FALSE,
             error |-> <<"Internal server error: ">> \o exc,
             match |-> FALSE, confidence |-> 0]]

\* ------------------------------------------------------ /config endpoint
Absent == [kind |-> "absent", v |-> 0]
Bad == [kind |-> "bad", v |-> 0]
Num(n) == [kind |-> "num", v |-> n]

InRange(x) == 0 <= x /\ x <= One

ConfigError(msg) == [status |-> 400, error |-> msg]

ConfigSuccess(tol, ct) ==
  [status |-> 200, success |-> TRUE,
   message |-> "Configuration updated successfully",
   tolerance |-> tol, confidence_threshold |-> ct]

get_config(tol, ct) ==
  [status |-> 200, confidence_threshold |-> ct, tolerance |-> tol]

\* variant: the value is assigned before it is range-checked
update_config_setfirst(data, tol, ct) ==
  IF ~data.body
  THEN [tolerance |-> tol, confidence_threshold |-> ct,
        response |-> ConfigError(<<Cause>>)]
  ELSE IF data.tolerance.kind = "bad"
  THEN [tolerance |-> tol, confidence_threshold |-> ct,
        response |-> ConfigError(<<Cause>>)]
  ELSE IF data.tolerance.kind = "num" /\ ~InRange(data.tolerance.v)
  THEN [tolerance |-> data.tolerance.v, confidence_threshold |-> ct,
        response |-> ConfigError(<<"Tolerance must be between 0.0 and 1.0">>)]
  ELSE LET tol1 == IF data.tolerance.kind = "num" THEN data.tolerance.v
                   ELSE tol
       IN IF data.confidence_threshold.kind = "bad"
          THEN [tolerance |-> tol1, confidence_threshold |-> ct,
                response |-> ConfigError(<<Cause>>)]
          ELSE IF data.confidence_threshold.kind = "num"
                  /\ ~InRange(data.confidence_threshold.v)
          THEN [tolerance |-> tol1, confidence_threshold |-> ct,
                response |-> ConfigError(
                  <<"Confidence threshold must be between 0.0 and 1.0">>)]
          ELSE LET ct1 == IF data.confidence_threshold.kind = "num"
                          THEN data.confidence_threshold.v ELSE ct
               IN [tolerance |-> tol1, confidence_threshold |-> ct1,
                   response |-> ConfigSuccess(tol1, ct1)]

\* variant: a rejected tolerance does not end the update
update_config_continue(data, tol, ct) ==
  IF ~data.body
  THEN [tolerance |-> tol, confidence_threshold |-> ct,
        response |-> ConfigError(<<Cause>>)]
  ELSE IF data.tolerance.kind = "bad"
  THEN [tolerance |-> tol, confidence_threshold |-> ct,
        response |-> ConfigError(<<Cause>>)]
  ELSE LET tolRejected == data.tolerance.kind = "num"
                            /\ ~InRange(data.tolerance.v)
           tol1 == IF data.tolerance.kind = "num" /\ ~tolRejected
                   THEN data.tolerance.v ELSE tol
           ctOk == data.confidence_threshold.kind = "num"
                     /\ InRange(data.confidence_threshold.v)
           ct1 == IF ctOk THEN data.confidence_threshold.v ELSE ct
       IN IF tolRejected
          THEN [tolerance |-> tol1, confidence_threshold |-> ct1,
                response |-> ConfigError(
                  <<"Tolerance must be between 0.0 and 1.0">>)]
          ELSE IF data.confidence_threshold.kind = "bad"
          THEN [tolerance |-> tol1, confidence_threshold |-> ct,
                response |-> ConfigError(<<Cause>>)]
          ELSE IF data.confidence_threshold.kind = "num" /\ ~ctOk
          THEN [tolerance |-> tol1, confidence_threshold |-> ct,
                response |-> ConfigError(
                  <<"Confidence threshold must be between 0.0 and 1.0">>)]
          ELSE [tolerance |-> tol1, confidence_threshold |-> ct1,
                response |-> ConfigSuccess(tol1, ct1)]

\* variant: the upper bound of the confidence threshold is not checked
update_config_noupper(data, tol, ct) ==
  IF ~data.body
  THEN [tolerance |-> tol, confidence_threshold |-> ct,
        response |-> ConfigError(<<Cause>>)]
  ELSE IF data.tolerance.kind = "bad"
  THEN [tolerance |-> tol, confidence_threshold |-> ct,
        response |-> ConfigError(<<Cause>>)]
  ELSE IF data.tolerance.kind = "num" /\ ~InRange(data.tolerance.v)
  THEN [tolerance |-> tol, confidence_threshold |-> ct,
        response |-> ConfigError(<<"Tolerance must be between 0.0 and 1.0">>)]
  ELSE LET tol1 == IF data.tolerance.kind = "num" THEN data.tolerance.v
                   ELSE tol
       IN IF data.confidence_threshold.kind = "bad"
          THEN [tolerance |-> tol1, confidence_threshold |-> ct,
                response |-> ConfigError(<<Cause>>)]
          ELSE IF data.confidence_threshold.kind = "num"
                  /\ ~(0 <= data.confidence_threshold.v)
          THEN [tolerance |-> tol1, confidence_threshold |-> ct,
                response |-> ConfigError(
                  <<"Confidence threshold must be between 0.0 and 1.0">>)]
          ELSE LET ct1 == IF data.confidence_threshold.kind = "num"
                          THEN data.confidence_threshold.v ELSE ct
               IN [tolerance |-> tol1, confidence_threshold |-> ct1,
                   response |-> ConfigSuccess(tol1, ct1)]

\* update_config: float() raises on a value that is not a number ("bad"),
\* 'tolerance' in data raises when there is no JSON body; both end in the
\* except clause (400) with whatever was assigned before.
update_config(data, tol, ct) ==
  IF ~data.body
  THEN [tolerance |-> tol, confidence_threshold |-> ct,
        response |-> ConfigError(<<Cause>>)]
  ELSE IF data.tolerance.kind = "bad"
  THEN [tolerance |-> tol, confidence_threshold |-> ct,
        response |-> ConfigError(<<Cause>>)]
  ELSE IF data.tolerance.kind = "num" /\ ~InRange(data.tolerance.v)
  THEN [tolerance |-> tol, confidence_threshold |-> ct,
        response |-> ConfigError(<<"Tolerance must be between 0.0 and 1.0">>)]
  ELSE LET tol1 == IF data.tolerance.kind = "num" THEN data.tolerance.v
                   ELSE tol
       IN IF data.confidence_threshold.kind = "bad"
          THEN [tolerance |-> tol1, confidence_threshold |-> ct,
                response |-> ConfigError(<<Cause>>)]
          ELSE IF data.confidence_threshold.kind = "num"
                  /\ ~InRange(data.confidence_threshold.v)
          THEN [tolerance |-> tol1, confidence_threshold |-> ct,
                response |-> ConfigError(
                  <<"Confidence threshold must be between 0.0 and 1.0">>)]
          ELSE LET ct1 == IF data.confidence_threshold.kind = "num"
                          THEN data.confidence_threshold.v ELSE ct
               IN [tolerance |-> tol1, confidence_threshold |-> ct1,
                   response |-> ConfigSuccess(tol1, ct1)]

\* ================================================================ state
VARIABLES
  tolerance,             \* face_verifier.tolerance
  confidence_threshold,  \* face_verifier.confidence_threshold
  pc,                    \* position of the /verify request being handled
  profile_image_b64,     \* arguments of verify_identity
  id_image_b64,
  profile_image,         \* locals of verify_identity
  id_image,
  profile_encoding,
  id_encoding,
  comparison_result,
  result,                \* what verify_identity returned to the endpoint
  escaped,               \* an exception left verify_identity
  response,              \* the /verify response
  ran,                   \* the stages this verification has run, in order
  last                   \* the latest completed /config exchange

vars == <<tolerance, confidence_threshold, pc, profile_image_b64,
          id_image_b64, profile_image, id_image, profile_encoding,
          id_encoding, comparison_result, result, escaped, response, ran,
          last>>

config == <<tolerance, confidence_threshold>>
locals == <<profile_image, id_image, profile_encoding, id_encoding,
            comparison_result>>
args == <<profile_image_b64, id_image_b64>>

NoResponse == [status |-> 0, body |-> NoResult]
NoData == [body |-> FALSE, tolerance |-> Absent,
           confidence_threshold |-> Absent]

\* ---------------------------------------------------------- input sets
RECURSIVE SeqsUpTo(_, _)
SeqsUpTo(S, n) ==
  IF n = 0 THEN {<<>>}
  ELSE LET shorter == SeqsUpTo(S, n - 1)
       IN shorter \cup {Append(s, c) : s \in shorter, c \in S}

AllPayloads == SeqsUpTo(Chars, MaxLen)

VerifyPayloads ==
  {<<>>, <<"a">>, <<"m">>, <<"n">>, <<"d">>, <<"e">>, <<"w">>, <<"x">>,
   <<"h", ",", "a">>}

VerifyRequests ==
  {[body |-> FALSE, profile_image |-> <<>>, id_image |-> <<>>]}
    \cup {[body |-> TRUE, profile_image |-> p, id_image |-> i] :
            p \in VerifyPayloads, i \in VerifyPayloads}

ToleranceFields == {Absent, Bad, Num(-1), Num(0), Num(3), Num(6), Num(One),
                    Num(15)}
ThresholdFields == {Absent, Bad, Num(3), Num(15)}

ConfigRequests ==
  {NoData} \cup {[body |-> TRUE, tolerance |-> t, confidence_threshold |-> c] :
                   t \in ToleranceFields, c \in ThresholdFields}

Grid == {<<x, y>> : x \in 0..MaxEmb, y \in 0..MaxEmb}
ExactPair(u, v) ==
  ISqrt(SumSq(u, v)) * ISqrt(SumSq(u, v)) = SumSq(u, v)

\* ----------------------------------------------------------------- Init
Init ==
  /\ tolerance = DefaultTolerance
  /\ confidence_threshold = DefaultConfidenceThreshold
  /\ pc = "idle"
  /\ profile_image_b64 = <<>>
  /\ id_image_b64 = <<>>
  /\ profile_image = NoImage
  /\ id_image = NoImage
  /\ profile_encoding = None
  /\ id_encoding = None
  /\ comparison_result = NoComparison
  /\ result = NoResult
  /\ escaped = FALSE
  /\ response = NoResponse
  /\ ran = <<>>
  /\ last = [op |-> "none", data |-> NoData, response |-> NoResponse]

\* ------------------------------------------------------ /verify, steps
\* verify_identity returns res to the endpoint, lines 175-179
Return(res) ==
  /\ result' = res
  /\ escaped' = FALSE
  /\ response' = endpoint_response(res)
  /\ pc' = "done"

\* an exception raised inside the try block of verify_identity
Raise(exc) ==
  LET h == verify_except(exc)
  IN IF h.escaped
     THEN /\ result' = NoResult
          /\ escaped' = TRUE
          /\ response' = endpoint_except(exc)
          /\ pc' = "done"
     ELSE Return(h.result)

Continue(next) ==
  /\ pc' = next
  /\ UNCHANGED <<result, escaped, response>>

\* POST /verify arrives: lines 151-175
VerifyRequest(data) ==
  /\ pc \in {"idle", "done"}
  /\ profile_image_b64' = data.profile_image
  /\ id_image_b64' = data.id_image
  /\ profile_image' = NoImage
  /\ id_image' = NoImage
  /\ profile_encoding' = None
  /\ id_encoding' = None
  /\ comparison_result' = NoComparison
  /\ ran' = <<>>
  /\ result' = NoResult
  /\ escaped' = FALSE
  /\ IF verify_request_error(data).status = 400
     THEN /\ response' = verify_request_error(data)
          /\ pc' = "done"
     ELSE /\ response' = NoResponse
          /\ pc' = "decode_profile"
  /\ UNCHANGED <<config, last>>

\* line 96
DecodeProfile ==
  /\ pc = "decode_profile"
  /\ ran' = Append(ran, "profile-decode")
  /\ LET r == base64_to_image(profile_image_b64)
     IN IF r.raised
        THEN Raise(r.exc) /\ UNCHANGED profile_image
        ELSE Continue("decode_id") /\ profile_image' = r.image
  /\ UNCHANGED <<config, args, id_image, profile_encoding, id_encoding,
                 comparison_result, last>>

\* line 97
DecodeId ==
  /\ pc = "decode_id"
  /\ ran' = Append(ran, "id-decode")
  /\ LET r == base64_to_image(id_image_b64)
     IN IF r.raised
        THEN Raise(r.exc) /\ UNCHANGED id_image
        ELSE Continue("detect_profile") /\ id_image' = r.image
  /\ UNCHANGED <<config, args, profile_image, profile_encoding, id_encoding,
                 comparison_result, last>>

\* variant: the profile error does not end the verification
DetectProfile_noreturn ==
  /\ pc = "detect_profile"
  /\ ran' = Append(ran, "profile-detect")
  /\ LET r == detect_and_encode_face(profile_image)
     IN /\ profile_encoding' = r.encoding
        /\ Continue("detect_id")
  /\ UNCHANGED <<config, args, profile_image, id_image, id_encoding,
                 comparison_result, last>>

\* lines 100-107
DetectProfile ==
  /\ pc = "detect_profile"
  /\ ran' = Append(ran, "profile-detect")
  /\ LET r == detect_and_encode_face(profile_image)
     IN /\ profile_encoding' = r.encoding
        /\ IF r.error # None
           THEN Return(profile_error_outcome(r.error))
           ELSE Continue("detect_id")
  /\ UNCHANGED <<config, args, profile_image, id_image, id_encoding,
                 comparison_result, last>>

\* lines 109-116
DetectId ==
  /\ pc = "detect_id"
  /\ ran' = Append(ran, "id-detect")
  /\ LET r == detect_and_encode_face(id_image)
     IN /\ id_encoding' = r.encoding
        /\ IF r.error # None
           THEN Return(id_error_outcome(r.error))
           ELSE Continue("compare")
  /\ UNCHANGED <<config, args, profile_image, id_image, profile_encoding,
                 comparison_result, last>>

\* line 119: compare_faces reads self.tolerance (line 80)
Compare ==
  /\ pc = "compare"
  /\ ran' = Append(ran, "compare")
  /\ LET r == compare_faces(profile_encoding, id_encoding, tolerance)
     IN /\ comparison_result' = r
        /\ IF r.raised THEN Raise(r.exc) ELSE Continue("emit")
  /\ UNCHANGED <<config, args, profile_image, id_image, profile_encoding,
                 id_encoding, last>>

\* lines 121-128: the outcome is built, reading self.tolerance (line 127)
Emit ==
  /\ pc = "emit"
  /\ Return(success_outcome(comparison_result, tolerance))
  /\ UNCHANGED <<config, args, locals, ran, last>>

\* ------------------------------------------------------ /config, whole
GetConfig ==
  /\ last' = [op |-> "get_config", data |-> NoData,
              response |-> get_config(tolerance, confidence_threshold)]
  /\ UNCHANGED <<config, pc, args, locals, result, escaped, response, ran>>

UpdateConfig(data) ==
  /\ LET u == update_config(data, tolerance, confidence_threshold)
     IN /\ tolerance' = u.tolerance
        /\ confidence_threshold' = u.confidence_threshold
        /\ last' = [op |-> "update_config", data |-> data,
                    response |-> u.response]
  /\ UNCHANGED <<pc, args, locals, result, escaped, response, ran>>

\* ------------------------------------------------------- specifications
Next ==
  \/ \E data \in VerifyRequests : VerifyRequest(data)
  \/ DecodeProfile
  \/ DecodeId
  \/ DetectProfile
  \/ DetectId
  \/ Compare
  \/ Emit
  \/ GetConfig
  \/ \E data \in ConfigRequests : UpdateConfig(data)

Spec == Init /\ [][Next]_vars

\* base64_to_image on every payload up to MaxLen characters
InitDecode ==
  /\ tolerance = DefaultTolerance
  /\ confidence_threshold = DefaultConfidenceThreshold
  /\ pc = "decode_profile"
  /\ profile_image_b64 \in AllPayloads
  /\ id_image_b64 = <<"a">>
  /\ profile_image = NoImage
  /\ id_image = NoImage
  /\ profile_encoding = None
  /\ id_encoding = None
  /\ comparison_result = NoComparison
  /\ result = NoResult
  /\ escaped = FALSE
  /\ response = NoResponse
  /\ ran = <<>>
  /\ last = [op |-> "none", data |-> NoData, response |-> NoResponse]

NextDecode == DecodeProfile

SpecDecode == InitDecode /\ [][NextDecode]_vars

\* compare_faces on every pair of embeddings of the grid whose distance is
\* a whole number of tenths, under every tolerance in [0, 1]
InitCompare ==
  /\ tolerance \in 0..One
  /\ confidence_threshold = DefaultConfidenceThreshold
  /\ pc = "compare"
  /\ profile_image_b64 = <<>>
  /\ id_image_b64 = <<>>
  /\ profile_image = NoImage
  /\ id_image = NoImage
  /\ profile_encoding \in Grid
  /\ id_encoding \in {v \in Grid : ExactPair(profile_encoding, v)}
  /\ comparison_result = NoComparison
  /\ result = NoResult
  /\ escaped = FALSE
  /\ response = NoResponse
  /\ ran = <<>>
  /\ last = [op |-> "none", data |-> NoData, response |-> NoResponse]

NextCompare == Compare \/ Emit

SpecCompare == InitCompare /\ [][NextCompare]_vars

\* =============================================================== claims
Last(s) == s[Len(s)]

\* the pipeline of the current request has run and returned
Done == pc = "done" /\ ran # <<>>
Failed == Done /\ ~escaped /\ ~result.success
Succeeded == Done /\ ~escaped /\ result.success

Within01(x) == 0 <= x /\ x <= 10

\* what the detector says about an image, whoever asks
DetectFails(image) ==
  \/ image = NoImage
  \/ detector_raises(image)
  \/ face_locations(image) = <<>>
  \/ face_encodings(image) = <<>>

StageFails(stage) ==
  CASE stage = "profile-decode" -> base64_to_image(profile_image_b64).raised
    [] stage = "id-decode" -> base64_to_image(id_image_b64).raised
    [] stage = "profile-detect" ->
         DetectFails(base64_to_image(profile_image_b64).image)
    [] stage = "id-detect" ->
         DetectFails(base64_to_image(id_image_b64).image)

DeclaredOrder ==
  <<"profile-decode", "profile-detect", "id-decode", "id-detect">>
CodeOrder ==
  <<"profile-decode", "id-decode", "profile-detect", "id-detect">>

\* index of the first failing stage of an order, 0 when every stage passes
FirstFailing(order) ==
  IF \E k \in 1..Len(order) : StageFails(order[k])
  THEN CHOOSE k \in 1..Len(order) :
         StageFails(order[k]) /\ \A j \in 1..(k - 1) : ~StageFails(order[j])
  ELSE 0

StageErrorHead(stage) ==
  CASE stage = "profile-decode" -> "Invalid image format: "
    [] stage = "id-decode" -> "Invalid image format: "
    [] stage = "profile-detect" -> "Profile image: "
    [] stage = "id-detect" -> "ID image: "

FirstFailureWins(order) ==
  Done /\ FirstFailing(order) # 0 =>
    LET k == FirstFailing(order)
    IN /\ Failed
       /\ Last(ran) = order[k]
       /\ Head(result.error) = StageErrorHead(order[k])
       /\ \A j \in (k + 1)..Len(order) : order[j] \notin Range(ran)
       /\ "compare" \notin Range(ran)

\* C1 (as stated): the error is that of the first failing stage in the order
\* profile-decode, profile-detect, id-decode, id-detect, and no later stage
\* of that order is run.
C1_DeclaredOrder == FirstFailureWins(DeclaredOrder)

\* C1 (amended): the error is that of the first failing stage in the order
\* profile-decode, id-decode, profile-detect, id-detect; the stages run are
\* exactly that order up to the failing stage, and no later stage is run.
C1_CodeOrder ==
  /\ FirstFailureWins(CodeOrder)
  /\ Done /\ FirstFailing(CodeOrder) # 0 =>
       ran = SubSeq(CodeOrder, 1, FirstFailing(CodeOrder))
  /\ Done /\ FirstFailing(CodeOrder) = 0 => ran = CodeOrder \o <<"compare">>

\* profile decodes but shows no face, the ID payload is undecodable: the
\* outcome is the ID decode failure and the profile detector never ran
C1_Witness ==
  /\ Done
  /\ profile_image_b64 = <<"n">>
  /\ id_image_b64 = <<"x">>
  /\ ran = <<"profile-decode", "id-decode">>
  /\ Head(result.error) = "Invalid image format: "

\* C2 (as stated): a failure of the profile image (decode, no face, no
\* encoding) gives an error that references "Profile image", a failure of
\* the ID image gives an error prefixed "ID image: ".
C2_EveryFailureNamesImage ==
  Failed =>
    /\ Last(ran) \in {"profile-decode", "profile-detect"} =>
         "Profile image: " \in Range(result.error)
    /\ Last(ran) \in {"id-decode", "id-detect"} =>
         Head(result.error) = "ID image: "

\* C2 (amended): a detection or encoding failure names its image, prefix
\* "Profile image: " or "ID image: "; an undecodable payload of either
\* image gives "Invalid image format: <cause>", which names no image.
C2_DetectFailureNamesImage ==
  Failed =>
    /\ Last(ran) = "profile-detect" =>
         Head(result.error) = "Profile image: "
    /\ Last(ran) = "id-detect" => Head(result.error) = "ID image: "
    /\ Last(ran) \in {"profile-decode", "id-decode"} =>
         /\ Head(result.error) = "Invalid image format: "
         /\ "Profile image: " \notin Range(result.error)
         /\ "ID image: " \notin Range(result.error)

\* the ID image has a face region but no encoding
C2_Witness ==
  /\ Failed
  /\ id_image = "d"
  /\ result.error = <<"ID image: ", "Could not generate face encoding">>

\* a detector run of this verification returned zero regions
ZeroFacesDetected ==
  \/ /\ "profile-detect" \in Range(ran)
     /\ ~detector_raises(profile_image)
     /\ face_locations(profile_image) = <<>>
  \/ /\ "id-detect" \in Range(ran)
     /\ ~detector_raises(id_image)
     /\ face_locations(id_image) = <<>>

\* C3: verify_identity always returns an outcome, whatever stage fails and
\* also when a stage raises; an outcome with success = false has
\* match = false, confidence = 0.0 and an error string; zero detected faces
\* give such an outcome whose error mentions "No face detected".
C3_NoFailureEscapes ==
  Done =>
    /\ ~escaped
    /\ response.status \in {200, 400}
    /\ response.body = result
    /\ ~result.success =>
         /\ result.match = FALSE
         /\ result.confidence = 0
         /\ result.error # <<>>
         /\ response.status = 400
    /\ ZeroFacesDetected =>
         /\ ~result.success
         /\ "No face detected in the image" \in Range(result.error)

\* compare_faces raised on a malformed embedding and the exception became
\* a failure outcome
C3_Witness ==
  /\ Failed
  /\ Last(ran) = "compare"
  /\ comparison_result.raised
  /\ Head(result.error) = "Face comparison error: "

\* C4: matched = (distance < tolerance), strictly: a distance equal to the
\* tolerance is a non-match, tolerance 0 matches nothing, and
\* confidence = max(0, 1 - distance); distance is the Euclidean distance.
C4_StrictCompare ==
  pc = "emit" =>
    LET d == comparison_result.distance
    IN /\ d * d = SumSq(profile_encoding, id_encoding)
       /\ comparison_result.match = (d < tolerance)
       /\ d = tolerance => ~comparison_result.match
       /\ tolerance = 0 => ~comparison_result.match
       /\ comparison_result.confidence = (IF d >= 10 THEN 0 ELSE 10 - d)

\* a distance exactly at a positive tolerance
C4_Witness ==
  /\ pc = "emit"
  /\ tolerance > 0
  /\ comparison_result.distance = tolerance
  /\ ~comparison_result.match

\* C5: in every successful outcome threshold_used is the tolerance the
\* match was decided against: match = (distance < threshold_used).
C5_ThresholdUsedDecidedMatch ==
  Succeeded => result.match = (result.distance < result.threshold_used)

\* steps of the /config handlers
UpdateStep == last' # last /\ last'.op = "update_config"
GetStep == last' # last /\ last'.op = "get_config"
TolNum == last'.data.tolerance.kind = "num"
ThrNum == last'.data.confidence_threshold.kind = "num"

C6_Rejected ==
  UpdateStep /\ TolNum /\ ~Within01(last'.data.tolerance.v) =>
    tolerance' = tolerance /\ last'.response.status = 400
C6_Stored ==
  UpdateStep /\ TolNum /\ Within01(last'.data.tolerance.v) =>
    tolerance' = last'.data.tolerance.v
C6_Get == GetStep => last'.response.tolerance = tolerance
C6_Verify ==
  pc = "emit" /\ pc' = "done" => result'.threshold_used = tolerance

\* C6 (as stated): an out-of-range tolerance is rejected with 400 and
\* nothing is stored; an in-range tolerance is stored, and get and
\* threshold_used report the stored value, which changes only in an update
\* that succeeds.
C6_UntilSuccessfulUpdate ==
  [][/\ C6_Rejected /\ C6_Stored /\ C6_Get /\ C6_Verify
     /\ tolerance' # tolerance =>
          UpdateStep /\ last'.response.status = 200]_vars

\* C6 (amended): as above, but the stored value changes in every update
\* that carries an in-range tolerance, also in one that is answered 400
\* because of its confidence_threshold.
C6_UntilNextAcceptedTolerance ==
  [][/\ C6_Rejected /\ C6_Stored /\ C6_Get /\ C6_Verify
     /\ tolerance' # tolerance =>
          /\ UpdateStep /\ TolNum
          /\ Within01(last'.data.tolerance.v)
          /\ tolerance' = last'.data.tolerance.v]_vars

\* tolerance 0.3 was stored and an update to 1.5 has been rejected since
C6_Witness ==
  /\ last.op = "update_config"
  /\ last.data.tolerance = Num(15)
  /\ last.response.status = 400
  /\ tolerance = 3

\* C7 (as stated): in an update carrying both fields each in-range field is
\* written and each out-of-range field is left alone, whatever the other.
C7_FieldsIndependent ==
  [][UpdateStep /\ TolNum /\ ThrNum =>
       /\ tolerance' = (IF Within01(last'.data.tolerance.v)
                        THEN last'.data.tolerance.v ELSE tolerance)
       /\ confidence_threshold' =
            (IF Within01(last'.data.confidence_threshold.v)
             THEN last'.data.confidence_threshold.v
             ELSE confidence_threshold)]_vars

\* C7 (amended): tolerance is checked first; an in-range tolerance is
\* written whatever the confidence_threshold, but a rejected tolerance ends
\* the update, so the confidence_threshold is written only when it is in
\* range and the tolerance was in range too.
C7_ToleranceFirst ==
  [][UpdateStep /\ TolNum /\ ThrNum =>
       /\ tolerance' = (IF Within01(last'.data.tolerance.v)
                        THEN last'.data.tolerance.v ELSE tolerance)
       /\ confidence_threshold' =
            (IF /\ Within01(last'.data.tolerance.v)
                /\ Within01(last'.data.confidence_threshold.v)
             THEN last'.data.confidence_threshold.v
             ELSE confidence_threshold)
       /\ last'.response.status =
            (IF /\ Within01(last'.data.tolerance.v)
                /\ Within01(last'.data.confidence_threshold.v)
             THEN 200 ELSE 400)]_vars

\* tolerance 1.5 was rejected and the valid threshold 0.3 of the same
\* update was not applied
C7_Witness ==
  /\ last.op = "update_config"
  /\ last.data.tolerance = Num(15)
  /\ last.data.confidence_threshold = Num(3)
  /\ last.response.status = 400
  /\ confidence_threshold = 6

\* positions of the delimiter in a payload
Commas(s) == {k \in 1..Len(s) : s[k] = ","}
MinOf(S) == CHOOSE k \in S : \A j \in S : k <= j
MaxOf(S) == CHOOSE k \in S : \A j \in S : k >= j

AfterLastComma(s) ==
  IF Commas(s) = {} THEN s ELSE SubSeq(s, MaxOf(Commas(s)) + 1, Len(s))

BetweenFirstAndSecondComma(s) ==
  IF Commas(s) = {} THEN s
  ELSE LET c1 == MinOf(Commas(s))
           rest == Commas(s) \ {c1}
           c2 == IF rest = {} THEN Len(s) + 1 ELSE MinOf(rest)
       IN SubSeq(s, c1 + 1, c2 - 1)

\* the image a data segment decodes to
Decoded(data) ==
  IF Len(data) = 1 /\ data[1] \in ImageChars THEN data[1] ELSE NoImage

\* C8 (as stated): the image data is the segment after the last ','.
C8_AfterLastDelimiter ==
  "profile-decode" \in Range(ran) =>
    profile_image = Decoded(AfterLastComma(profile_image_b64))

\* C8 (amended): the image data is the segment between the first and the
\* second ',' (up to the end when there is one ',', the whole payload
\* when there is none).
C8_SecondSegment ==
  "profile-decode" \in Range(ran) =>
    /\ profile_image = Decoded(BetweenFirstAndSecondComma(profile_image_b64))
    /\ (pc = "done") = (profile_image = NoImage)

\* two delimiters: the image between them is decoded, what follows the
\* last one is ignored
C8_Witness ==
  /\ profile_image_b64 = <<",", "a", ",">>
  /\ pc = "decode_id"
  /\ profile_image = "a"

\* C9: several regions in an image are not a failure: the verification
\* goes on with the embedding of the first region the detector returned,
\* so the outcome is a function of the detector's output.
C9_FirstFace ==
  /\ "profile-detect" \in Range(ran)
       /\ Len(face_locations(profile_image)) > 1 =>
       /\ profile_encoding = Head(face_encodings(profile_image))
       /\ Done => Last(ran) # "profile-detect"
  /\ "id-detect" \in Range(ran) /\ Len(face_locations(id_image)) > 1 =>
       /\ id_encoding = Head(face_encodings(id_image))
       /\ Done => Last(ran) # "id-detect"
  /\ Succeeded =>
       result.distance = face_distance(Head(face_encodings(profile_image)),
                                       Head(face_encodings(id_image)))

\* a two-face profile image against a one-face ID image
C9_Witness ==
  /\ Succeeded
  /\ profile_image = "m"
  /\ id_image = "a"
  /\ profile_encoding = <<3, 4>>
  /\ result.distance = 5

\* C10: tolerance and confidence_threshold start at 0.6 and 0.6, stay in
\* [0.0, 1.0] whatever the requests, and are changed by no step of verify
\* or get-config.
C10_ConfigInRange ==
  /\ tolerance = 6 /\ confidence_threshold = 6
  /\ [](Within01(tolerance) /\ Within01(confidence_threshold))
  /\ [][~UpdateStep => UNCHANGED config]_vars

\* the boundary value 1.0 was stored and 1.5 was refused in the same update
C10_Witness ==
  /\ last.op = "update_config"
  /\ last.data.tolerance = Num(10)
  /\ last.data.confidence_threshold = Num(15)
  /\ tolerance = 10
  /\ confidence_threshold = 6
====
